---- MODULE Spec2Model ----
(***************************************************************************)
(* The flow simulation of React-FlowDiagram: FlowSimulation.tsx walks a    *)
(* list of Steps (each with ordered SubSteps) one success/failure choice   *)
(* at a time.  The module models the component state of the first variant  *)
(* in the file (activeStep, activeSubStepIndex, flowPath, isComplete,      *)
(* driven by handleChoice) and of the second variant (currentStepId,       *)
(* currentSubStepIndex, simulationHistory, driven by handleResult), and    *)
(* the editor of App.tsx (FlowDiagramBuilder) that owns the step list,     *)
(* exports and imports it and mounts the simulation on it.                 *)
(***************************************************************************)
EXTENDS Integers, Sequences, FiniteSets

VARIABLES
    steps,                \* the `steps` prop handed to FlowSimulation
    activeStep,           \* useState(steps[0]): <<>> is undefined, <<s>> a Step
    activeSubStepIndex,   \* 0-based index into activeStep.subSteps
    flowPath,             \* records {step, subStepIndex, result}
    isComplete,
    currentStepId,        \* second variant: useState(steps[0]?.id)
    currentSubStepIndex,
    simulationHistory,    \* records {stepId, subStepIndex, result}
    newStepTitle,         \* App.tsx: the title input of the editor
    showSimulation,       \* App.tsx: FlowSimulation is mounted
    alertShown,           \* the alert() dialog of importConfiguration is open
    startSteps,           \* history variable: <<steps>> as they were when
                          \* FlowSimulation was last mounted, <<>> before
    pendingRead           \* files a FileReader of importConfiguration is
                          \* reading: readAsText called, onload not yet run

vars == <<steps, activeStep, activeSubStepIndex, flowPath, isComplete,
          currentStepId, currentSubStepIndex, simulationHistory,
          newStepTitle, showSimulation, alertShown, startSteps,
          pendingRead>>

editorVars == <<newStepTitle, showSimulation, alertShown, startSteps,
                pendingRead>>

choiceVars == <<activeStep, activeSubStepIndex, flowPath, isComplete>>
resultVars == <<currentStepId, currentSubStepIndex, simulationHistory>>

----------------------------------------------------------------------------
(* Bounds of the model. *)

\* handleChoice / handleResult are not offered once the history holds this
\* many records (flowPath and simulationHistory grow without limit).
MaxPath == 3

\* Longest subSteps list of a step of the snapshot.
MaxSubSteps == 2

----------------------------------------------------------------------------
(* Values. *)

\* An optional step id that is not set: `undefined`, or the "" of the
\* "Select Step" option; both are falsy in `if (nextStepId)`.
NoId == ""

\* Ids of the steps a snapshot may hold, in list order.
StepIds == <<"S1", "S2">>

\* What a successStepId / failureStepId field may hold.  With a one-step
\* snapshot "S2" names no step (a dangling reference).
TargetIds == {NoId} \cup {StepIds[i] : i \in 1..Len(StepIds)}

Results == {"success", "failure"}

SubStepActions == {"next", "goto"}

\* interface SubStep (FlowSimulation.tsx 6-13) as addSubStep creates it:
\* both actions next, no target ids.
DefaultSubStep ==
    [content |-> "", successAction |-> "next", failureAction |-> "next",
     successStepId |-> NoId, failureStepId |-> NoId]

\* How one outcome of a sub-step is routed: <<action, target id>>.  A target
\* id is kept only with the action goto: the handlers never read it under
\* next.
Routes == { <<"next", NoId>> } \cup { <<"goto", t>> : t \in TargetIds }

\* Every routing a sub-step can be given.
SubStepSet ==
    { [content |-> "", successAction |-> rs[1], failureAction |-> rf[1],
       successStepId |-> rs[2], failureStepId |-> rf[2]] :
         rs \in Routes, rf \in Routes }

\* subSteps lists of n entries: all as created, or one of them re-routed.
\* Sub-step ids are unique within the parent: "x1", "x2", ...
SubStepIdOf == <<"x1", "x2", "x3", "x4">>

WithIds(list) ==
    [i \in 1..Len(list) |->
        [id |-> SubStepIdOf[i], content |-> list[i].content,
         successAction |-> list[i].successAction,
         failureAction |-> list[i].failureAction,
         successStepId |-> list[i].successStepId,
         failureStepId |-> list[i].failureStepId]]

PlainSubSteps(n) == WithIds([i \in 1..n |-> DefaultSubStep])

RoutedSubSteps(n) ==
    { WithIds([i \in 1..n |-> IF i = p THEN c ELSE DefaultSubStep]) :
        p \in 1..n, c \in SubStepSet }

\* interface Step (FlowSimulation.tsx 15-23); addStep creates it expanded.
MkStep(id, subs, s, f) ==
    [id |-> id, title |-> id, type |-> "normal", subSteps |-> subs,
     expanded |-> TRUE, successStepId |-> s, failureStepId |-> f]

\* subSteps lists within the bounds: as created, or with one sub-step
\* re-routed.
PlainLists == { PlainSubSteps(n) : n \in 0..MaxSubSteps }

RoutedLists == PlainLists \cup UNION { RoutedSubSteps(n) : n \in 1..MaxSubSteps }

\* The steps with a given id: any subSteps list of `lists`, any step-level
\* links.
StepsOf(id, lists) ==
    { MkStep(id, subs, s, f) :
        subs \in lists, s \in TargetIds, f \in TargetIds }

\* The step lists a simulation is started on: no step, one step, or two
\* steps of which at most one has a re-routed sub-step.
Snapshots ==
    { <<>> }
    \cup { <<a>> : a \in StepsOf(StepIds[1], RoutedLists) }
    \cup { <<a, b>> : a \in StepsOf(StepIds[1], RoutedLists),
                      b \in StepsOf(StepIds[2], PlainLists) }
    \cup { <<a, b>> : a \in StepsOf(StepIds[1], PlainLists),
                      b \in StepsOf(StepIds[2], RoutedLists) }

----------------------------------------------------------------------------
(* FlowSimulation, first variant: handleChoice. *)

\* steps.find(s => s.id === id): <<>> for undefined, else the first match.
Find(list, id) ==
    LET hits == { i \in 1..Len(list) : list[i].id = id }
    IN  IF hits = {} THEN <<>>
        ELSE << list[CHOOSE i \in hits : \A j \in hits : i <= j] >>

\* The two early returns of handleChoice: activeStep is defined and
\* activeStep.subSteps[activeSubStepIndex] is defined.
HasCurrentSubStep(st, idx) ==
    /\ st # <<>>
    /\ idx < Len(st[1].subSteps)

\* The record handleChoice appends first.
PathRecord(step, idx, result) ==
    [step |-> step, subStepIndex |-> idx, result |-> result]

\* EmptyStepRecord carrying a failure.
EmptyStepRecordAsFailure(nextStep) ==
    [step |-> nextStep, subStepIndex |-> 0, result |-> "failure"]

\* The record appended for a next step that has no sub-steps.
EmptyStepRecord(nextStep) ==
    [step |-> nextStep, subStepIndex |-> 0, result |-> "success"]

\* AdvancesInStep with the bound test off by one: the sub-step before the
\* last one is taken for the last.
AdvancesInStepOffByOne(step, idx, result) ==
    /\ result = "success"
    /\ step.subSteps[idx + 1].successAction = "next"
    /\ idx < Len(step.subSteps) - 2

\* The branch that ends in `setActiveSubStepIndex(activeSubStepIndex + 1);
\* return;`: only a success on a next sub-step that is not the last one.
AdvancesInStep(step, idx, result) ==
    /\ result = "success"
    /\ step.subSteps[idx + 1].successAction = "next"
    /\ idx < Len(step.subSteps) - 1

\* NextStepId falling back to the step-level link when the sub-step's goto
\* has no target of its own.
NextStepIdFallsBack(step, idx, result) ==
    LET currentSubStep == step.subSteps[idx + 1]
    IN  IF result = "success"
        THEN IF currentSubStep.successAction = "next"
                \/ currentSubStep.successStepId = NoId
             THEN step.successStepId
             ELSE currentSubStep.successStepId
        ELSE IF currentSubStep.failureAction = "next"
                \/ currentSubStep.failureStepId = NoId
             THEN step.failureStepId
             ELSE currentSubStep.failureStepId

\* `let nextStepId` as the if/else over result and the sub-step's action
\* leaves it when the handler did not return.
NextStepId(step, idx, result) ==
    LET currentSubStep == step.subSteps[idx + 1]
    IN  IF result = "success"
        THEN IF currentSubStep.successAction = "next"
             THEN step.successStepId
             ELSE currentSubStep.successStepId
        ELSE IF currentSubStep.failureAction = "next"
             THEN step.failureStepId
             ELSE currentSubStep.failureStepId

\* CompleteAfter that clears the flag when the lookup does not end the flow.
CompleteAfterClearsOnMove(list, nextStepId, complete) ==
    IF nextStepId # NoId
    THEN LET nextStep == Find(list, nextStepId)
         IN  nextStep # <<>> /\ Len(nextStep[1].subSteps) = 0
    ELSE TRUE

\* CompleteAfter without the setIsComplete(true) calls.
CompleteAfterNever(list, nextStepId, complete) == complete

\* `if (nextStepId) {...} else { setIsComplete(true) }` with the inner
\* `nextStep.subSteps.length === 0` branch: the value isComplete gets.
CompleteAfter(list, nextStepId, complete) ==
    IF nextStepId # NoId
    THEN LET nextStep == Find(list, nextStepId)
         IN  IF nextStep # <<>> /\ Len(nextStep[1].subSteps) = 0
             THEN TRUE
             ELSE complete
    ELSE TRUE

\* ActiveStepAfter without the setActiveStep call.
ActiveStepAfterStays(list, nextStepId, st) == st

\* The step setActiveStep leaves: the found next step when it has
\* sub-steps, else the step the handler was called on.
ActiveStepAfter(list, nextStepId, st) ==
    LET nextStep == Find(list, nextStepId)
    IN  IF nextStepId # NoId /\ nextStep # <<>>
           /\ Len(nextStep[1].subSteps) # 0
        THEN nextStep
        ELSE st

\* IndexAfter without the setActiveSubStepIndex(0) call.
IndexAfterKeepsIndex(list, nextStepId, idx) == idx

\* IndexAfter with setActiveSubStepIndex(0) moved out of the branch that
\* found a next step.
IndexAfterAlwaysReset(list, nextStepId, idx) == 0

\* setActiveSubStepIndex(0) goes with setActiveStep(nextStep).
IndexAfter(list, nextStepId, idx) ==
    LET nextStep == Find(list, nextStepId)
    IN  IF nextStepId # NoId /\ nextStep # <<>>
           /\ Len(nextStep[1].subSteps) # 0
        THEN 0
        ELSE idx

\* PathAfter with setFlowPath replacing the path instead of extending it.
PathAfterRestarts(list, nextStepId, path, rec) == <<rec>>

\* PathAfter without the second setFlowPath call.
PathAfterOneRecord(list, nextStepId, path, rec) == Append(path, rec)

\* The two setFlowPath updaters, applied in call order.
PathAfter(list, nextStepId, path, rec) ==
    LET nextStep == Find(list, nextStepId)
    IN  IF nextStepId # NoId /\ nextStep # <<>>
           /\ Len(nextStep[1].subSteps) = 0
        THEN Append(Append(path, rec), EmptyStepRecord(nextStep[1]))
        ELSE Append(path, rec)

\* handleChoice without its two early returns: a cursor that resolves to no
\* sub-step falls through to the end-of-flow branch.
HandleChoiceNoEarlyReturn(result) ==
    /\ Len(flowPath) < MaxPath
    /\ UNCHANGED <<steps, resultVars, editorVars>>
    /\ IF ~HasCurrentSubStep(activeStep, activeSubStepIndex)
       THEN /\ isComplete' = TRUE
            /\ UNCHANGED <<activeStep, activeSubStepIndex, flowPath>>
       ELSE LET step == activeStep[1]
                rec == PathRecord(step, activeSubStepIndex, result)
                nextStepId == NextStepId(step, activeSubStepIndex, result)
            IN  IF AdvancesInStep(step, activeSubStepIndex, result)
                THEN /\ flowPath' = Append(flowPath, rec)
                     /\ activeSubStepIndex' = activeSubStepIndex + 1
                     /\ UNCHANGED <<activeStep, isComplete>>
                ELSE /\ flowPath' = PathAfter(steps, nextStepId, flowPath, rec)
                     /\ activeStep' =
                            ActiveStepAfter(steps, nextStepId, activeStep)
                     /\ activeSubStepIndex' =
                            IndexAfter(steps, nextStepId, activeSubStepIndex)
                     /\ isComplete' =
                            CompleteAfter(steps, nextStepId, isComplete)

HandleChoice(result) ==
    /\ Len(flowPath) < MaxPath
    /\ UNCHANGED <<steps, resultVars, editorVars>>
    /\ IF ~HasCurrentSubStep(activeStep, activeSubStepIndex)
       THEN UNCHANGED choiceVars
       ELSE LET step == activeStep[1]
                rec == PathRecord(step, activeSubStepIndex, result)
                nextStepId == NextStepId(step, activeSubStepIndex, result)
            IN  IF AdvancesInStep(step, activeSubStepIndex, result)
                THEN /\ flowPath' = Append(flowPath, rec)
                     /\ activeSubStepIndex' = activeSubStepIndex + 1
                     /\ UNCHANGED <<activeStep, isComplete>>
                ELSE /\ flowPath' = PathAfter(steps, nextStepId, flowPath, rec)
                     /\ activeStep' =
                            ActiveStepAfter(steps, nextStepId, activeStep)
                     /\ activeSubStepIndex' =
                            IndexAfter(steps, nextStepId, activeSubStepIndex)
                     /\ isComplete' =
                            CompleteAfter(steps, nextStepId, isComplete)

----------------------------------------------------------------------------
(* FlowSimulation, second variant: handleResult. *)

\* `const currentStep = steps.find(s => s.id === currentStepId)`
CurrentStep == Find(steps, currentStepId)

\* The step id handleResult moves to, NoId when it sets none: the
\* step-level link after the last next sub-step, the sub-step's own target
\* under goto.
ResultTarget(step, idx, result) ==
    LET currentSubStep == step.subSteps[idx + 1]
        action == IF result = "success" THEN currentSubStep.successAction
                  ELSE currentSubStep.failureAction
        own == IF result = "success" THEN currentSubStep.successStepId
               ELSE currentSubStep.failureStepId
        link == IF result = "success" THEN step.successStepId
                ELSE step.failureStepId
    IN  IF action = "next"
        THEN IF idx < Len(step.subSteps) - 1 THEN NoId ELSE link
        ELSE own

\* setCurrentSubStepIndex(prev => prev + 1) under next before the last
\* sub-step.
ResultAdvances(step, idx, result) ==
    LET currentSubStep == step.subSteps[idx + 1]
        action == IF result = "success" THEN currentSubStep.successAction
                  ELSE currentSubStep.failureAction
    IN  action = "next" /\ idx < Len(step.subSteps) - 1

HandleResult(result) ==
    /\ Len(simulationHistory) < MaxPath
    /\ UNCHANGED <<steps, choiceVars, editorVars>>
    /\ IF ~HasCurrentSubStep(CurrentStep, currentSubStepIndex)
       THEN UNCHANGED resultVars
       ELSE LET step == CurrentStep[1]
                target == ResultTarget(step, currentSubStepIndex, result)
            IN  /\ simulationHistory' =
                       Append(simulationHistory,
                              [stepId |-> step.id,
                               subStepIndex |-> currentSubStepIndex,
                               result |-> result])
                /\ IF ResultAdvances(step, currentSubStepIndex, result)
                   THEN /\ currentSubStepIndex' = currentSubStepIndex + 1
                        /\ UNCHANGED currentStepId
                   ELSE IF target # NoId
                   THEN /\ currentStepId' = target
                        /\ currentSubStepIndex' = 0
                   ELSE UNCHANGED <<currentStepId, currentSubStepIndex>>

----------------------------------------------------------------------------
(* The component right after it is mounted on a snapshot. *)

Init ==
    /\ steps \in Snapshots
    /\ activeStep = (IF steps = <<>> THEN <<>> ELSE <<steps[1]>>)
    /\ activeSubStepIndex = 0
    /\ flowPath = <<>>
    /\ isComplete = FALSE
    /\ currentStepId = (IF steps = <<>> THEN NoId ELSE steps[1].id)
    /\ currentSubStepIndex = 0
    /\ simulationHistory = <<>>
    /\ newStepTitle = ""
    /\ showSimulation = TRUE
    /\ alertShown = FALSE
    /\ startSteps = <<steps>>
    /\ pendingRead = {}

Next == \E result \in Results : HandleChoice(result)

Spec == Init /\ [][Next]_vars

NextResult == \E result \in Results : HandleResult(result)

SpecResult == Init /\ [][NextResult]_vars

----------------------------------------------------------------------------
(* FlowDiagramBuilder (App.tsx, first variant): the editor's step list. *)

\* What the title input may hold: nothing, blanks only, a title.
Titles == {"", " ", "A"}

\* String.prototype.trim on the titles above.
Trim(t) == IF t = " " THEN "" ELSE t

\* What is typed into the content input of a sub-step.
Contents == {"c"}

\* generateId: Math.random().toString(36).substr(2, 9).  Nothing compares
\* the result with the ids in use, so any id of the pool may come out.
GeneratedStepIds == {StepIds[i] : i \in 1..Len(StepIds)}

GeneratedSubStepIds == {"x1", "x2"}

\* The sub-step ids updateSubStep and updateSubStepConfig are called with.
UpdatedSubStepIds == {"x1"}

\* A config updateSubStepConfig is given: the success outcome routed to a
\* step.
ConfigPatches ==
    { [successAction |-> "goto", successStepId |-> "S2"] }

\* What the link selects of a step and connectSuccessStep /
\* connectFailureStep are given: no step, or a step id.
LinkTargets == {NoId, "S2"}

\* `{ ...obj, ...patch }`
Spread(obj, patch) ==
    [k \in DOMAIN obj \cup DOMAIN patch |->
        IF k \in DOMAIN patch THEN patch[k] ELSE obj[k]]

\* list.filter(keep) for a set of kept positions.
RECURSIVE FilterSeq(_, _)
FilterSeq(list, keep) ==
    IF list = <<>> THEN <<>>
    ELSE LET rest == FilterSeq(Tail(list), { i - 1 : i \in keep \ {1} })
         IN  IF 1 \in keep THEN <<Head(list)>> \o rest ELSE rest

\* MapId without the id test.
MapIdEveryItem(list, id, images) == images

\* list.map(item => item.id === id ? f(item) : item), given the list of
\* the f(item).
MapId(list, id, images) ==
    [i \in 1..Len(list) |-> IF list[i].id = id THEN images[i] ELSE list[i]]

\* The step addStep builds; the link fields are not set.
NewStep(id, title, type) ==
    [id |-> id, title |-> title, type |-> type, subSteps |-> <<>>,
     expanded |-> TRUE, successStepId |-> NoId, failureStepId |-> NoId]

\* The sub-step addSubStep builds.
NewSubStep(id) ==
    [id |-> id, content |-> DefaultSubStep.content,
     successAction |-> DefaultSubStep.successAction,
     failureAction |-> DefaultSubStep.failureAction,
     successStepId |-> NoId, failureStepId |-> NoId]

\* The page renders: the step list reads step.subSteps.length of every
\* step, which throws on a step without a subSteps list and unmounts the
\* application.
Renders(list) == \A i \in 1..Len(list) : "subSteps" \in DOMAIN list[i]

\* FlowSimulation renders: the active-step card, shown until the simulation
\* is complete, reads activeStep.title, which throws without an active step.
SimulationRenders == showSimulation => (isComplete \/ activeStep # <<>>)

\* A handler can run: the page is rendered and no alert() is open.
Interactive == Renders(steps) /\ SimulationRenders /\ ~alertShown

\* onChange of the title input.
SetNewStepTitle(t) ==
    /\ Interactive
    /\ newStepTitle' = t
    /\ UNCHANGED <<steps, showSimulation, alertShown, startSteps, pendingRead,
                   choiceVars, resultVars>>

\* addStep with `!newStepTitle` for `!newStepTitle.trim()`.
StepsAfterAddStepUntrimmed(list, title, type, id) ==
    IF title = "" THEN list
    ELSE Append(list, NewStep(id, title, type))

\* The list addStep leaves: unchanged for a blank title.
StepsAfterAddStep(list, title, type, id) ==
    IF Trim(title) = "" THEN list
    ELSE Append(list, NewStep(id, title, type))

\* onClick of the add button: addStep('normal'), then setNewStepTitle('').
AddStep(id) ==
    /\ Interactive
    /\ Len(steps) < Len(StepIds)
    /\ steps' = StepsAfterAddStep(steps, newStepTitle, "normal", id)
    /\ newStepTitle' = ""
    /\ UNCHANGED <<showSimulation, alertShown, startSteps, pendingRead,
                   choiceVars, resultVars>>

\* addSubStep that puts the new sub-step first.
StepsAfterAddSubStepFirst(list, stepId, ids) ==
    MapId(list, stepId,
          [i \in 1..Len(list) |->
             Spread(list[i],
                    [subSteps |-> <<NewSubStep(ids[i])>> \o list[i].subSteps])])

\* generateId() runs inside the map callback, once for every step with the
\* id: ids[i] is what it returns for the step at position i.
StepsAfterAddSubStep(list, stepId, ids) ==
    MapId(list, stepId,
          [i \in 1..Len(list) |->
             Spread(list[i],
                    [subSteps |->
                       Append(list[i].subSteps, NewSubStep(ids[i]))])])

\* The number of sub-steps of a step list.
RECURSIVE SubStepCount(_)
SubStepCount(list) ==
    IF list = <<>> THEN 0
    ELSE Len(Head(list).subSteps) + SubStepCount(Tail(list))

AddSubStep(stepId, ids) ==
    /\ Interactive
    /\ SubStepCount(steps) < MaxSubSteps
    /\ steps' = StepsAfterAddSubStep(steps, stepId, ids)
    /\ UNCHANGED <<editorVars, choiceVars, resultVars>>

StepsAfterUpdateSubStep(list, stepId, subStepId, patch) ==
    MapId(list, stepId,
          [i \in 1..Len(list) |->
             Spread(list[i],
                    [subSteps |->
                       MapId(list[i].subSteps, subStepId,
                             [j \in 1..Len(list[i].subSteps) |->
                                Spread(list[i].subSteps[j], patch)])])])

\* updateSubStep: `{ ...subStep, content }`
UpdateSubStep(stepId, subStepId, content) ==
    /\ Interactive
    /\ steps' = StepsAfterUpdateSubStep(steps, stepId, subStepId,
                                        [content |-> content])
    /\ UNCHANGED <<editorVars, choiceVars, resultVars>>

\* updateSubStepConfig: `{ ...subStep, ...config }`
UpdateSubStepConfig(stepId, subStepId, config) ==
    /\ Interactive
    /\ steps' = StepsAfterUpdateSubStep(steps, stepId, subStepId, config)
    /\ UNCHANGED <<editorVars, choiceVars, resultVars>>

\* deleteStep that also clears the step-level links to the deleted step.
StepsAfterDeleteStepCascades(list, stepId) ==
    LET kept == FilterSeq(list, { i \in 1..Len(list) : list[i].id # stepId })
    IN  [i \in 1..Len(kept) |->
           Spread(kept[i],
                  [successStepId |-> IF kept[i].successStepId = stepId
                                     THEN NoId ELSE kept[i].successStepId,
                   failureStepId |-> IF kept[i].failureStepId = stepId
                                     THEN NoId ELSE kept[i].failureStepId])]

StepsAfterDeleteStep(list, stepId) ==
    FilterSeq(list, { i \in 1..Len(list) : list[i].id # stepId })

DeleteStep(stepId) ==
    /\ Interactive
    /\ steps' = StepsAfterDeleteStep(steps, stepId)
    /\ UNCHANGED <<editorVars, choiceVars, resultVars>>

StepsAfterDeleteSubStep(list, stepId, subStepId) ==
    MapId(list, stepId,
          [i \in 1..Len(list) |->
             Spread(list[i],
                    [subSteps |->
                       FilterSeq(list[i].subSteps,
                                 { j \in 1..Len(list[i].subSteps) :
                                     list[i].subSteps[j].id # subStepId })])])

DeleteSubStep(stepId, subStepId) ==
    /\ Interactive
    /\ steps' = StepsAfterDeleteSubStep(steps, stepId, subStepId)
    /\ UNCHANGED <<editorVars, choiceVars, resultVars>>

\* connectSuccessStep writing both links.
ConnectSuccessStepBothLinks(sourceId, targetId) ==
    /\ Interactive
    /\ steps' = MapId(steps, sourceId,
                      [i \in 1..Len(steps) |->
                         Spread(steps[i], [successStepId |-> targetId,
                                           failureStepId |-> targetId])])
    /\ UNCHANGED <<editorVars, choiceVars, resultVars>>

\* connectSuccessStep, and the onChange of the step's success select, which
\* stores `e.target.value || undefined`.
ConnectSuccessStep(sourceId, targetId) ==
    /\ Interactive
    /\ steps' = MapId(steps, sourceId,
                      [i \in 1..Len(steps) |->
                         Spread(steps[i], [successStepId |-> targetId])])
    /\ UNCHANGED <<editorVars, choiceVars, resultVars>>

ConnectFailureStep(sourceId, targetId) ==
    /\ Interactive
    /\ steps' = MapId(steps, sourceId,
                      [i \in 1..Len(steps) |->
                         Spread(steps[i], [failureStepId |-> targetId])])
    /\ UNCHANGED <<editorVars, choiceVars, resultVars>>

----------------------------------------------------------------------------
(* exportConfiguration / importConfiguration: the step list as a JSON file. *)

\* The fields of Step and SubStep that may be undefined.
OptionalKeys == {"successStepId", "failureStepId"}

\* JSON.stringify of an object: a key whose value is undefined is left out.
\* The document is modelled by the keys it holds.
JsonObject(obj) ==
    [k \in { f \in DOMAIN obj : ~(f \in OptionalKeys /\ obj[f] = NoId) } |->
        obj[k]]

JsonStep(step) ==
    IF "subSteps" \in DOMAIN step
    THEN JsonObject(Spread(step,
             [subSteps |-> [j \in 1..Len(step.subSteps) |->
                               JsonObject(step.subSteps[j])]]))
    ELSE JsonObject(step)

\* FromJsonObject that never reads a missing key.
FromJsonObjectAsWritten(obj) == obj

\* What JSON.parse makes of a document object: a key the document lacks
\* reads as undefined.
FromJsonObject(obj) ==
    [k \in DOMAIN obj \cup OptionalKeys |->
        IF k \in DOMAIN obj THEN obj[k] ELSE NoId]

FromJsonStep(obj) ==
    IF "subSteps" \in DOMAIN obj
    THEN FromJsonObject(Spread(obj,
             [subSteps |-> [j \in 1..Len(obj.subSteps) |->
                               FromJsonObject(obj.subSteps[j])]]))
    ELSE FromJsonObject(obj)

\* A file: text JSON.parse throws on, the text "null", or the text of an
\* object, given by the object.
UnparsableFile == [kind |-> "unparsable", doc |-> [raw |-> "{steps:"]]

NullFile == [kind |-> "null", doc |-> [raw |-> "null"]]

ObjectFile(doc) == [kind |-> "object", doc |-> doc]

\* JSON.stringify({steps, version: '1.0'}, null, 2): the downloaded file.
ExportedFile(list) ==
    ObjectFile([steps |-> [i \in 1..Len(list) |-> JsonStep(list[i])],
                version |-> "1.0"])

\* Step lists written by hand or by another editor: well-formed ones (one
\* with a repeated step id and a repeated sub-step id) ...
SampleStep(id, subs, s, f) ==
    Spread(NewStep(id, "A", "normal"),
           [subSteps |-> subs, successStepId |-> s, failureStepId |-> f])

SampleLists ==
    { <<>>,
      << SampleStep("S1", <<NewSubStep("x1")>>, "S2", NoId) >>,
      << SampleStep("S1", <<NewSubStep("x1"), NewSubStep("x2")>>, "S2", NoId),
         SampleStep("S2", <<>>, NoId, "S2") >>,
      << SampleStep("S1", <<NewSubStep("x1"), NewSubStep("x1")>>, NoId, NoId),
         SampleStep("S1", <<>>, NoId, NoId) >> }

\* ... and documents that are not of the expected shape: no steps field, or
\* a steps list whose entry is not a Step.
NoStepsFile == ObjectFile([version |-> "1.0"])

MalformedStepsFile == ObjectFile([steps |-> << [id |-> "S1"] >>,
                                  version |-> "1.0"])

WrongShapeFiles == {UnparsableFile, NullFile, NoStepsFile, MalformedStepsFile}

\* reader.onload of importConfiguration.  JSON.parse throws on unparsable
\* text and `configuration.steps` throws on null: both reach the catch.
ImportThrows(file) == file.kind \in {"unparsable", "null"}

\* `if (configuration.steps)`: the key is there (a list is truthy).
HasSteps(file) == ~ImportThrows(file) /\ "steps" \in DOMAIN file.doc

StepsAfterImport(list, file) ==
    IF HasSteps(file)
    THEN [i \in 1..Len(file.doc.steps) |-> FromJsonStep(file.doc.steps[i])]
    ELSE list

ImportConfiguration(file) ==
    /\ Interactive
    /\ steps' = StepsAfterImport(steps, file)
    /\ alertShown' = ImportThrows(file)
    /\ pendingRead' = pendingRead \ {file}
    /\ UNCHANGED <<newStepTitle, showSimulation, startSteps,
                   choiceVars, resultVars>>

\* exportConfiguration hands the file to the browser; the editor's state
\* is not written.
ExportConfiguration ==
    /\ Interactive
    /\ UNCHANGED vars

\* The user closes the alert() dialog.
DismissAlert ==
    /\ alertShown
    /\ alertShown' = FALSE
    /\ UNCHANGED <<steps, newStepTitle, showSimulation, startSteps,
                   pendingRead, choiceVars, resultVars>>

\* The files a user may pick: wrong-shape ones, the samples, and the file
\* the editor itself exports from its current list.
ImportFiles ==
    WrongShapeFiles \cup { ExportedFile(l) : l \in SampleLists }
    \cup (IF Renders(steps) THEN {ExportedFile(steps)} ELSE {})

\* The editor when the page is opened.
InitEditor ==
    /\ steps = <<>>
    /\ newStepTitle = ""
    /\ showSimulation = FALSE
    /\ alertShown = FALSE
    /\ startSteps = <<>>
    /\ pendingRead = {}
    /\ activeStep = <<>>
    /\ activeSubStepIndex = 0
    /\ flowPath = <<>>
    /\ isComplete = FALSE
    /\ currentStepId = NoId
    /\ currentSubStepIndex = 0
    /\ simulationHistory = <<>>

NextStore ==
    \/ \E t \in Titles : SetNewStepTitle(t)
    \/ \E id \in GeneratedStepIds : AddStep(id)
    \/ \E stepId \in GeneratedStepIds,
          ids \in [1..Len(steps) -> GeneratedSubStepIds] :
          AddSubStep(stepId, ids)
    \/ \E stepId \in GeneratedStepIds, subStepId \in UpdatedSubStepIds,
          content \in Contents :
          UpdateSubStep(stepId, subStepId, content)
    \/ \E stepId \in GeneratedStepIds, subStepId \in UpdatedSubStepIds,
          config \in ConfigPatches :
          UpdateSubStepConfig(stepId, subStepId, config)
    \/ \E stepId \in GeneratedStepIds : DeleteStep(stepId)
    \/ \E stepId \in GeneratedStepIds, subStepId \in GeneratedSubStepIds :
          DeleteSubStep(stepId, subStepId)
    \/ \E sourceId \in GeneratedStepIds, targetId \in LinkTargets :
          ConnectSuccessStep(sourceId, targetId)
    \/ \E sourceId \in GeneratedStepIds, targetId \in LinkTargets :
          ConnectFailureStep(sourceId, targetId)
    \/ ExportConfiguration
    \/ \E file \in ImportFiles : ImportConfiguration(file)
    \/ DismissAlert

SpecStore == InitEditor /\ [][NextStore]_vars

----------------------------------------------------------------------------
(* The editor with the simulation: FlowSimulation is mounted on the editor's
   `steps` while showSimulation is true. *)

\* onClick of Start Simulation: setShowSimulation(true) mounts
\* FlowSimulation, whose useState initialisers read the `steps` prop.
StartSimulation ==
    /\ Renders(steps) /\ ~alertShown
    /\ ~showSimulation
    /\ showSimulation' = TRUE
    /\ activeStep' = (IF steps = <<>> THEN <<>> ELSE <<steps[1]>>)
    /\ activeSubStepIndex' = 0
    /\ flowPath' = <<>>
    /\ isComplete' = FALSE
    /\ currentStepId' = (IF steps = <<>> THEN NoId ELSE steps[1].id)
    /\ currentSubStepIndex' = 0
    /\ simulationHistory' = <<>>
    /\ startSteps' = <<steps>>
    /\ UNCHANGED <<steps, newStepTitle, alertShown, pendingRead>>

\* onClose: setShowSimulation(false) unmounts FlowSimulation and its state
\* is dropped.
CloseSimulation ==
    /\ Interactive
    /\ showSimulation
    /\ showSimulation' = FALSE
    /\ activeStep' = <<>>
    /\ activeSubStepIndex' = 0
    /\ flowPath' = <<>>
    /\ isComplete' = FALSE
    /\ currentStepId' = NoId
    /\ currentSubStepIndex' = 0
    /\ simulationHistory' = <<>>
    /\ UNCHANGED <<steps, newStepTitle, alertShown, startSteps, pendingRead>>

\* onClick of the Success / Failure button of the mounted simulation.
Choice(result) ==
    /\ Interactive
    /\ showSimulation
    /\ HandleChoice(result)

\* Editor handlers that run while the simulation is mounted.
EditWhileSimulating ==
    /\ showSimulation
    /\ \/ \E stepId \in GeneratedStepIds : DeleteStep(stepId)
       \/ \E stepId \in GeneratedStepIds :
             AddSubStep(stepId, [i \in 1..Len(steps) |-> "x1"])
       \/ \E sourceId \in GeneratedStepIds, targetId \in LinkTargets :
             ConnectSuccessStep(sourceId, targetId)

\* The files picked in a session with the simulation: exported lists.
SessionFiles == { ExportedFile(l) : l \in SampleLists }

NextApp ==
    \/ StartSimulation
    \/ CloseSimulation
    \/ \E result \in Results : Choice(result)
    \/ \E file \in SessionFiles : ImportConfiguration(file)
    \/ EditWhileSimulating

SpecApp == InitEditor /\ [][NextApp]_vars

----------------------------------------------------------------------------
(* importConfiguration in its two parts: the onChange handler of the file
   input starts a FileReader and returns; reader.onload runs as a later
   task, after any handler that was run in between. *)

\* FileReaders that may be reading at the same time.
MaxReads == 1

\* onChange of the file input: `new FileReader()`, the onload callback is
\* set and readAsText(file) is called; nothing of the editor is written.
SelectFile(file) ==
    /\ Interactive
    /\ Cardinality(pendingRead) < MaxReads
    /\ file \notin pendingRead
    /\ pendingRead' = pendingRead \cup {file}
    /\ UNCHANGED <<steps, newStepTitle, showSimulation, alertShown,
                   startSteps, choiceVars, resultVars>>

\* The read of a file is done and its reader.onload callback runs.
ReaderOnload == \E file \in pendingRead : ImportConfiguration(file)

\* The files picked in a session of edits and imports.
ReadFiles == SessionFiles \cup {UnparsableFile}

NextImport ==
    \/ \E t \in Titles : SetNewStepTitle(t)
    \/ \E id \in GeneratedStepIds : AddStep(id)
    \/ \E stepId \in GeneratedStepIds,
          ids \in [1..Len(steps) -> GeneratedSubStepIds] :
          AddSubStep(stepId, ids)
    \/ \E stepId \in GeneratedStepIds, subStepId \in UpdatedSubStepIds,
          content \in Contents :
          UpdateSubStep(stepId, subStepId, content)
    \/ \E file \in ReadFiles : SelectFile(file)
    \/ ReaderOnload
    \/ DismissAlert

SpecImport == InitEditor /\ [][NextImport]_vars

----------------------------------------------------------------------------
(* Vocabulary of the properties. *)

\* The sub-step the cursor is on (meaningful when HasCurrentSubStep holds).
CursorSubStep == activeStep[1].subSteps[activeSubStepIndex + 1]

\* The sub-step's action, the sub-step's own target and the step-level link
\* for an outcome.
ActionFor(sub, result) ==
    IF result = "success" THEN sub.successAction ELSE sub.failureAction

OwnTargetFor(sub, result) ==
    IF result = "success" THEN sub.successStepId ELSE sub.failureStepId

LinkFor(step, result) ==
    IF result = "success" THEN step.successStepId ELSE step.failureStepId

\* The cursor is on the last sub-step of its step.
OnLastSubStep == activeSubStepIndex = Len(activeStep[1].subSteps) - 1

\* A step of the behaviour is a call of handleChoice(result) that got past
\* the two early returns.
Submits(result) ==
    /\ HasCurrentSubStep(activeStep, activeSubStepIndex)
    /\ HandleChoice(result)

\* The cursor after the step is (step id, index).
CursorMovesTo(id, idx) ==
    /\ activeStep' # <<>>
    /\ activeStep'[1].id = id
    /\ activeSubStepIndex' = idx

CursorStays ==
    /\ activeStep' = activeStep
    /\ activeSubStepIndex' = activeSubStepIndex

\* The history gains exactly the record of the submitted sub-step.
OneRecordAdded(result) ==
    flowPath' = Append(flowPath,
                       [step |-> activeStep[1],
                        subStepIndex |-> activeSubStepIndex,
                        result |-> result])

----------------------------------------------------------------------------
(* C1 - C10 *)

C2_FailureNextAdvances ==
    [][(/\ ~isComplete
        /\ Submits("failure")
        /\ CursorSubStep.failureAction = "next"
        /\ ~OnLastSubStep)
       => (/\ activeStep' = activeStep
           /\ activeSubStepIndex' = activeSubStepIndex + 1
           /\ ~isComplete')]_vars

\* C3: a success on a sub-step whose successAction is next and which is not
\* the last of its step moves the cursor to (same step, index + 1), does not
\* touch isComplete and lengthens flowPath by exactly the record of the
\* submitted sub-step.
C3_SuccessNextAdvances ==
    [][(/\ Submits("success")
        /\ CursorSubStep.successAction = "next"
        /\ ~OnLastSubStep)
       => (/\ activeStep' = activeStep
           /\ activeSubStepIndex' = activeSubStepIndex + 1
           /\ isComplete' = isComplete
           /\ OneRecordAdded("success"))]_vars

\* C3 witness: after one success on the first of several next sub-steps the
\* cursor is on the second one.
C3_Witness ==
    /\ Len(flowPath) = 1
    /\ flowPath[1].result = "success"
    /\ flowPath[1].subStepIndex = 0
    /\ flowPath[1].step.subSteps[1].successAction = "next"
    /\ Len(flowPath[1].step.subSteps) > 1
    /\ activeStep = <<flowPath[1].step>>
    /\ activeSubStepIndex = 1
    /\ ~isComplete

\* C4: under the action next on the last sub-step the step-level link for
\* the outcome decides: present, the cursor moves to (that step, 0); absent,
\* isComplete becomes true and flowPath gains exactly the one record.
C4_LastNextFollowsLink ==
    [][\A result \in Results :
        (/\ ~isComplete
         /\ Submits(result)
         /\ ActionFor(CursorSubStep, result) = "next"
         /\ OnLastSubStep)
        => IF LinkFor(activeStep[1], result) # NoId
           THEN CursorMovesTo(LinkFor(activeStep[1], result), 0)
           ELSE isComplete' /\ OneRecordAdded(result)]_vars

\* C5: under the action goto with the sub-step's own target set, the cursor
\* moves to (target step, 0), whatever the index and the parent's links.
C5_GotoJumpsToTarget ==
    [][\A result \in Results :
        (/\ ~isComplete
         /\ Submits(result)
         /\ ActionFor(CursorSubStep, result) = "goto"
         /\ OwnTargetFor(CursorSubStep, result) # NoId)
        => CursorMovesTo(OwnTargetFor(CursorSubStep, result), 0)]_vars

C7_GotoNoTargetHalts ==
    [][\A result \in Results :
        (/\ Submits(result)
         /\ ActionFor(CursorSubStep, result) = "goto"
         /\ OwnTargetFor(CursorSubStep, result) = NoId)
        => CursorStays]_vars

\* C7 witness: a failure was submitted on a goto sub-step without failure
\* target in a step that has a failure link to a step with sub-steps, and
\* the cursor is still on that sub-step.
C7_Witness ==
    /\ Len(flowPath) = 1
    /\ flowPath[1].result = "failure"
    /\ flowPath[1].step.subSteps[1].failureAction = "goto"
    /\ flowPath[1].step.subSteps[1].failureStepId = NoId
    /\ flowPath[1].step.failureStepId # NoId
    /\ Find(steps, flowPath[1].step.failureStepId) # <<>>
    /\ Find(steps, flowPath[1].step.failureStepId)[1].id # flowPath[1].step.id
    /\ Len(Find(steps, flowPath[1].step.failureStepId)[1].subSteps) > 0
    /\ activeStep = <<flowPath[1].step>>
    /\ activeSubStepIndex = 0

\* C8: when the id handleChoice selects (the sub-step's goto target or the
\* step-level link) names no step of the snapshot, isComplete becomes true,
\* as it does when no id is set.
C8_DanglingCompletes ==
    [][\A result \in Results :
        (/\ ~isComplete
         /\ Submits(result)
         /\ ~AdvancesInStep(activeStep[1], activeSubStepIndex, result)
         /\ NextStepId(activeStep[1], activeSubStepIndex, result) # NoId
         /\ Find(steps,
                 NextStepId(activeStep[1], activeSubStepIndex, result)) = <<>>)
        => isComplete']_vars

C10_EmptyFirstStepComplete ==
    (steps # <<>> /\ steps[1].subSteps = <<>>) => isComplete

----------------------------------------------------------------------------
\* C11: when the cursor resolves to no sub-step (no active step, or no
\* sub-step at the cursor's index), a submission changes nothing of the
\* simulation: cursor, path and completion flag are as before.
C11_NoOpWithoutSubStep ==
    [][ \A result \in Results :
          (~HasCurrentSubStep(activeStep, activeSubStepIndex)
             /\ HandleChoice(result))
          => UNCHANGED choiceVars ]_vars

\* A simulation mounted on a first step without sub-steps: the cursor
\* resolves to no sub-step and the path is still empty.
C11_Witness ==
    /\ steps # <<>>
    /\ activeStep # <<>>
    /\ ~HasCurrentSubStep(activeStep, activeSubStepIndex)
    /\ flowPath = <<>>
    /\ ~isComplete

----------------------------------------------------------------------------
\* C12: a submission on the last sub-step whose action is next leaves the
\* simulation complete or moves the cursor to the first sub-step of the
\* step the step-level link names; it never leaves the cursor where it was.
C12_LastNextLeavesStep ==
    [][ \A result \in Results :
          (/\ ~isComplete
           /\ Submits(result)
           /\ ActionFor(CursorSubStep, result) = "next"
           /\ OnLastSubStep)
          => \/ isComplete'
             \/ /\ LinkFor(activeStep[1], result) # NoId
                /\ CursorMovesTo(LinkFor(activeStep[1], result), 0) ]_vars

----------------------------------------------------------------------------
\* C14: the path is append-only: the path before a submission is a prefix
\* of the path after it.
C14_PathAppendOnly ==
    [][ /\ Len(flowPath) <= Len(flowPath')
        /\ SubSeq(flowPath', 1, Len(flowPath)) = flowPath ]_vars

\* A path that was extended on top of earlier records.
C14_Witness ==
    /\ Len(flowPath) >= 3
    /\ \E i \in 1..Len(flowPath) : flowPath[i].result = "failure"

----------------------------------------------------------------------------
\* C15: on the two-step cycle S1 --success--> S2 --success--> S1 whose
\* sub-steps route success by next, every success submission is accepted
\* (one record), never completes the simulation, and moves the cursor to the
\* next sub-step or, from the last one, to the first sub-step of the other
\* step.
SuccessCycle ==
    /\ Len(steps) = 2
    /\ steps[1].successStepId = steps[2].id
    /\ steps[2].successStepId = steps[1].id
    /\ \A i \in 1..2 :
          /\ Len(steps[i].subSteps) > 0
          /\ \A j \in 1..Len(steps[i].subSteps) :
                steps[i].subSteps[j].successAction = "next"

OnlySuccesses == \A i \in 1..Len(flowPath) : flowPath[i].result = "success"

C15_CycleNeverCompletes ==
    [][ (SuccessCycle /\ OnlySuccesses /\ ~isComplete /\ Submits("success"))
        => /\ ~isComplete'
           /\ OneRecordAdded("success")
           /\ IF OnLastSubStep
              THEN CursorMovesTo(activeStep[1].successStepId, 0)
              ELSE /\ activeStep' = activeStep
                   /\ activeSubStepIndex' = activeSubStepIndex + 1 ]_vars

\* The cycle walked once around and back into S1.
C15_Witness ==
    /\ SuccessCycle
    /\ OnlySuccesses
    /\ ~isComplete
    /\ Len(flowPath) = 3
    /\ flowPath[1].step.id = "S1"
    /\ flowPath[2].step.id = "S2"
    /\ flowPath[3].step.id = "S1"
    /\ activeStep[1].id = "S2"

----------------------------------------------------------------------------
\* C17: importing a file that is not of the expected shape (unparsable, no
\* steps field, or a steps list that is not a list of Steps) leaves the
\* editor's step list as it was.
C17_WrongShapeKeepsSteps ==
    [][ \A file \in WrongShapeFiles :
          ImportConfiguration(file) => steps' = steps ]_vars

----------------------------------------------------------------------------
\* C18: every import of a file that is not of the expected shape reports an
\* error (the alert is shown).
C18_WrongShapeReported ==
    [][ \A file \in WrongShapeFiles :
          ImportConfiguration(file) => alertShown' ]_vars

----------------------------------------------------------------------------
\* C19: for every list G the editor reaches (the empty one included), the
\* file exported from G is one importConfiguration accepts, importing it
\* leaves the editor with exactly G whatever list it held before, and
\* exporting does not change the list.
C19_RoundTrip ==
    /\ [](/\ HasSteps(ExportedFile(steps))
          /\ \A held \in SampleLists :
                StepsAfterImport(held, ExportedFile(steps)) = steps)
    /\ [][ExportConfiguration => steps' = steps]_vars

\* An edited list whose export leaves keys out (links not set) and keeps
\* others (a routed sub-step), and which a round trip reproduces.
C19_Witness ==
    /\ Interactive
    /\ Len(steps) = 2
    /\ steps[1].successStepId = NoId
    /\ steps[2].failureStepId # NoId
    /\ \E i \in 1..2 :
          \E j \in 1..Len(steps[i].subSteps) :
             /\ steps[i].subSteps[j].successStepId # NoId
             /\ steps[i].subSteps[j].failureStepId = NoId
             /\ steps[i].subSteps[j].content # ""
    /\ DOMAIN ExportedFile(steps).doc.steps[1] # DOMAIN steps[1]
    /\ StepsAfterImport(<<>>, ExportedFile(steps)) = steps

----------------------------------------------------------------------------
\* C20: step ids are pairwise distinct, and within every step the sub-step
\* ids are pairwise distinct.
C20_IdsDistinct ==
    /\ \A i, j \in 1..Len(steps) : i # j => steps[i].id # steps[j].id
    /\ \A i \in 1..Len(steps) :
          "subSteps" \in DOMAIN steps[i] =>
             \A j, k \in 1..Len(steps[i].subSteps) :
                j # k => steps[i].subSteps[j].id # steps[i].subSteps[k].id

----------------------------------------------------------------------------
\* What handleChoice leaves when its lookups read `list` as the step list.
ChoiceOutcomeOver(list, result) ==
    IF ~HasCurrentSubStep(activeStep, activeSubStepIndex)
    THEN UNCHANGED choiceVars
    ELSE LET step == activeStep[1]
             rec == PathRecord(step, activeSubStepIndex, result)
             nextStepId == NextStepId(step, activeSubStepIndex, result)
         IN  IF AdvancesInStep(step, activeSubStepIndex, result)
             THEN /\ flowPath' = Append(flowPath, rec)
                  /\ activeSubStepIndex' = activeSubStepIndex + 1
                  /\ UNCHANGED <<activeStep, isComplete>>
             ELSE /\ flowPath' = PathAfter(list, nextStepId, flowPath, rec)
                  /\ activeStep' = ActiveStepAfter(list, nextStepId, activeStep)
                  /\ activeSubStepIndex' =
                         IndexAfter(list, nextStepId, activeSubStepIndex)
                  /\ isComplete' = CompleteAfter(list, nextStepId, isComplete)

\* C13: once a simulation is started, edits of the editor's list do not
\* reach it: an edit leaves cursor, path and completion flag alone, and
\* every submission has the outcome it has over the list the simulation was
\* started on.
C13_EditsDoNotReachSimulation ==
    [][ /\ (showSimulation /\ showSimulation' /\ steps' # steps)
            => UNCHANGED choiceVars
        /\ \A result \in Results :
              Choice(result) => ChoiceOutcomeOver(startSteps[1], result) ]_vars

----------------------------------------------------------------------------
----------------------------------------------------------------------------
\* C27: when a submission leads into a step without sub-steps, the second
\* record it appends is for that step, at index 0, with result success,
\* whatever outcome was submitted.
C27_EmptyStepRecordedAsSuccess ==
    [][ \A result \in Results :
          (Submits(result) /\ Len(flowPath') = Len(flowPath) + 2)
          => LET last == flowPath'[Len(flowPath')]
             IN  /\ flowPath'[Len(flowPath) + 1].result = result
                 /\ last.result = "success"
                 /\ last.subStepIndex = 0
                 /\ Len(last.step.subSteps) = 0
                 /\ Find(steps, last.step.id) = <<last.step>> ]_vars

\* A failure that led into a step without sub-steps.
C27_Witness ==
    /\ Len(flowPath) = 2
    /\ flowPath[1].result = "failure"
    /\ Len(flowPath[1].step.subSteps) > 0
    /\ Len(flowPath[2].step.subSteps) = 0
    /\ flowPath[2].result = "success"
    /\ isComplete

----------------------------------------------------------------------------
\* C28: on a list whose first step has a sub-step, while the simulation is
\* not complete the cursor's step is a step of the list and the cursor's
\* index is within that step's sub-step list.
C28_CursorValid ==
    (steps # <<>> /\ Len(steps[1].subSteps) > 0 /\ ~isComplete)
    => /\ activeStep # <<>>
       /\ \E i \in 1..Len(steps) : steps[i] = activeStep[1]
       /\ 0 <= activeSubStepIndex
       /\ activeSubStepIndex < Len(activeStep[1].subSteps)

\* The cursor moved to the second step after the last sub-step of the
\* first.
C28_Witness ==
    /\ ~isComplete
    /\ Len(steps) = 2
    /\ activeStep = <<steps[2]>>
    /\ activeSubStepIndex = 0
    /\ Len(flowPath) = 2
    /\ flowPath[2].subStepIndex = 1
    /\ Len(steps[2].subSteps) = 1

----------------------------------------------------------------------------
\* C29: once isComplete is true, no step of the simulation makes it false.
C29_CompleteStable ==
    [][ isComplete => isComplete' ]_vars

\* A simulation that completed on its first submission and took two more.
C29_Witness ==
    /\ isComplete
    /\ Len(steps) = 1
    /\ Len(steps[1].subSteps) = 1
    /\ steps[1].successStepId = NoId
    /\ steps[1].subSteps[1].successAction = "next"
    /\ Len(flowPath) = 3
    /\ flowPath[1].result = "success"

----------------------------------------------------------------------------
\* The step ids a step refers to: its links and its sub-steps' goto
\* targets, where set.
RefersTo(step) ==
    ({step.successStepId, step.failureStepId}
     \cup { step.subSteps[j].successStepId : j \in 1..Len(step.subSteps) }
     \cup { step.subSteps[j].failureStepId : j \in 1..Len(step.subSteps) })
    \ {NoId}

\* The ids reached from the ids of `from` in at most k references.
RECURSIVE ReachedIn(_, _, _)
ReachedIn(list, from, k) ==
    IF k = 0 THEN from
    ELSE LET near == ReachedIn(list, from, k - 1)
         IN  near \cup UNION { RefersTo(list[i]) :
                                 i \in { n \in 1..Len(list) : list[n].id \in near } }

\* Every reference names a step of the list and no step reaches itself.
AcyclicWellFormed(list) ==
    /\ list # <<>>
    /\ Len(list[1].subSteps) > 0
    /\ \A i \in 1..Len(list) :
          /\ \A id \in RefersTo(list[i]) : Find(list, id) # <<>>
          /\ list[i].id \notin ReachedIn(list, RefersTo(list[i]), Len(list))

\* C30: on a list whose references all resolve and form no cycle (first
\* step with a sub-step), a simulation that is not complete has taken
\* fewer submissions than the list has sub-steps: the submission that
\* makes the count equal completes it at the latest.
C30_AcyclicTerminates ==
    (AcyclicWellFormed(steps) /\ ~isComplete)
    => Len(flowPath) < SubStepCount(steps)

\* A run over two linked steps that completed with its third submission,
\* as many as the list has sub-steps.
C30_Witness ==
    /\ AcyclicWellFormed(steps)
    /\ Len(steps) = 2
    /\ SubStepCount(steps) = 3
    /\ isComplete
    /\ Len(flowPath) = 3
    /\ flowPath[1].step.id = "S1"
    /\ flowPath[3].step.id = "S2"

----------------------------------------------------------------------------
(* Vocabulary of the properties of the editor's operations. *)

\* No step of the editor's list has the id.
Absent(id) == \A i \in 1..Len(steps) : steps[i].id # id

\* The step at position i is as before except for the field `key`.
SameExcept(i, key) ==
    /\ DOMAIN steps'[i] = DOMAIN steps[i]
    /\ \A k \in DOMAIN steps[i] \ {key} : steps'[i][k] = steps[i][k]

\* An editor operation is applied to the step id (its stepId / sourceId).
OperatesOn(id) ==
    \/ \E ids \in [1..Len(steps) -> GeneratedSubStepIds] : AddSubStep(id, ids)
    \/ \E subStepId \in UpdatedSubStepIds, content \in Contents :
          UpdateSubStep(id, subStepId, content)
    \/ \E subStepId \in UpdatedSubStepIds, config \in ConfigPatches :
          UpdateSubStepConfig(id, subStepId, config)
    \/ \E subStepId \in GeneratedSubStepIds : DeleteSubStep(id, subStepId)
    \/ DeleteStep(id)
    \/ \E targetId \in LinkTargets :
          ConnectSuccessStep(id, targetId) \/ ConnectFailureStep(id, targetId)

\* A connect operation is given the id as its target.
ConnectsTo(id) ==
    \E sourceId \in GeneratedStepIds :
       ConnectSuccessStep(sourceId, id) \/ ConnectFailureStep(sourceId, id)

----------------------------------------------------------------------------
\* C22: deleteStep(id) leaves the steps with another id, in their order and
\* with all their fields (links and goto targets naming the deleted step
\* included), and nothing else.
C22_DeleteStepFrame ==
    [][ \A stepId \in GeneratedStepIds :
          DeleteStep(stepId)
          => LET kept == { i \in 1..Len(steps) : steps[i].id # stepId }
             IN  /\ Len(steps') = Cardinality(kept)
                 /\ \A i \in kept :
                       steps'[Cardinality({ j \in kept : j <= i })] = steps[i]
                 /\ UNCHANGED <<editorVars, choiceVars, resultVars>> ]_vars

\* Step S2 is gone and S1 still carries its link and its goto target to it.
C22_Witness ==
    /\ Len(steps) = 1
    /\ steps[1].id = "S1"
    /\ steps[1].successStepId = "S2"
    /\ \E j \in 1..Len(steps[1].subSteps) :
          steps[1].subSteps[j].successStepId = "S2"

----------------------------------------------------------------------------
----------------------------------------------------------------------------
\* C24: the add button with a blank title leaves the list unchanged; with
\* another title it appends one step with that title, type normal, no
\* sub-steps and no links, after the steps there were.
C24_AddStep ==
    [][ \A id \in GeneratedStepIds :
          AddStep(id)
          => IF newStepTitle \in {"", " "}
             THEN steps' = steps
             ELSE /\ Len(steps') = Len(steps) + 1
                  /\ SubSeq(steps', 1, Len(steps)) = steps
                  /\ steps'[Len(steps')] =
                        [id |-> id, title |-> newStepTitle, type |-> "normal",
                         subSteps |-> <<>>, expanded |-> TRUE,
                         successStepId |-> NoId, failureStepId |-> NoId] ]_vars

\* A step was added after an edited one.
C24_Witness ==
    /\ Len(steps) = 2
    /\ Len(steps[1].subSteps) > 0
    /\ steps[1].successStepId # NoId
    /\ steps[2].title = "A"
    /\ steps[2].subSteps = <<>>
    /\ steps[2].successStepId = NoId
    /\ steps[2].failureStepId = NoId
    /\ newStepTitle = ""

----------------------------------------------------------------------------
\* C25: connectSuccessStep(sourceId, targetId) sets successStepId of the
\* steps with id sourceId to targetId and leaves their other fields and the
\* other steps as they were; connectFailureStep likewise for failureStepId;
\* sourceId = targetId included.
C25_ConnectFrame ==
    [][ \A sourceId \in GeneratedStepIds, targetId \in LinkTargets :
          /\ ConnectSuccessStep(sourceId, targetId)
             => /\ Len(steps') = Len(steps)
                /\ \A i \in 1..Len(steps) :
                      IF steps[i].id = sourceId
                      THEN /\ steps'[i].successStepId = targetId
                           /\ SameExcept(i, "successStepId")
                      ELSE steps'[i] = steps[i]
          /\ ConnectFailureStep(sourceId, targetId)
             => /\ Len(steps') = Len(steps)
                /\ \A i \in 1..Len(steps) :
                      IF steps[i].id = sourceId
                      THEN /\ steps'[i].failureStepId = targetId
                           /\ SameExcept(i, "failureStepId")
                      ELSE steps'[i] = steps[i] ]_vars

\* Step S2 linked to itself on success, with its failure link not set.
C25_Witness ==
    /\ Interactive
    /\ \E i \in 1..Len(steps) :
          /\ steps[i].id = "S2"
          /\ steps[i].successStepId = "S2"
          /\ steps[i].failureStepId = NoId
          /\ Len(steps[i].subSteps) > 0

----------------------------------------------------------------------------
\* C26: addSubStep(stepId) appends to the sub-step list of the steps with
\* that id one sub-step with content "", both actions next and no target
\* ids, leaves their other sub-steps and fields and the other steps as they
\* were, and leaves the list unchanged when no step has the id.
C26_AddSubStep ==
    [][ \A stepId \in GeneratedStepIds,
           ids \in [1..Len(steps) -> GeneratedSubStepIds] :
          AddSubStep(stepId, ids)
          => /\ Len(steps') = Len(steps)
             /\ Absent(stepId) => steps' = steps
             /\ \A i \in 1..Len(steps) :
                   IF steps[i].id = stepId
                   THEN /\ steps'[i].subSteps =
                              Append(steps[i].subSteps,
                                     [id |-> ids[i], content |-> "",
                                      successAction |-> "next",
                                      failureAction |-> "next",
                                      successStepId |-> NoId,
                                      failureStepId |-> NoId])
                        /\ SameExcept(i, "subSteps")
                   ELSE steps'[i] = steps[i] ]_vars

\* A sub-step as created, after a sub-step that was edited.
C26_Witness ==
    /\ Interactive
    /\ \E i \in 1..Len(steps) :
          /\ Len(steps[i].subSteps) = 2
          /\ steps[i].subSteps[1].content = "c"
          /\ steps[i].subSteps[1].successAction = "goto"
          /\ steps[i].subSteps[2].content = ""
          /\ steps[i].subSteps[2].successAction = "next"
          /\ steps[i].subSteps[2].successStepId = NoId

----------------------------------------------------------------------------
\* C21: an operation on the list takes effect at the input that starts it:
\* while the read of an imported file is in flight, no other handler writes
\* the list (nothing runs between the choice of the file and the write of
\* its steps that the import could overwrite).
C21_MutationsAtomic ==
    [][ (pendingRead # {} /\ pendingRead' = pendingRead)
        => steps' = steps ]_vars

====
